---- MODULE Spec2Model ----
(***************************************************************************)
(* Night-lights / stock-returns pipeline.                                  *)
(*                                                                         *)
(* The files on disk are the state.  Each script or function of the        *)
(* repository that reads and writes them is one action:                    *)
(*   build_firm_hq_to_county            src/src/map_firms_to_counties.py   *)
(*   build_panel_firms_with_brightness  src/src/build_panel.py             *)
(*   run_basic_regression               src/src/modeling.py                *)
(*   build_features_and_model_data      src/src/features.py                *)
(*   build_lights_monthly_by_coord      src/src/preprocess_lights.py       *)
(*   the regression page                src/pages/5_Regression.py          *)
(*                                                                         *)
(* A pandas missing value (NaN, NaT) is the empty set, a present value x   *)
(* is the singleton {x}.  Returns are in units of 0.01.  Months are        *)
(* numbered 1..NumMonths from the start of the analysis window.            *)
(***************************************************************************)
EXTENDS Integers, Sequences, FiniteSets, TLC

VARIABLES
    firmsCsv,       \* data/raw/sp500_clean.csv
    retsCsv,        \* data/raw/sp500_monthly_returns.csv
    lightsCsv,      \* data/intermediate/lights_monthly_by_coord.csv
    profCsv,        \* data/intermediate/hq_with_county.csv
    hqCsv,          \* data/intermediate/firm_hq_county.csv
    panelCsv,       \* data/final/nightlights_model_data.csv
    regSample,      \* the rows the last regression run handed to its estimator
    mapStatus,      \* outcome of the last build_firm_hq_to_county
    panelStatus,    \* outcome of the last build_panel_firms_with_brightness
    regStatus,      \* outcome of the last regression run
    regPath,        \* which code ran it: run_basic_regression or the page
    featStatus,     \* outcome of the last use of src.features
    rawLights,      \* the raw VIIRS table load_raw_lights returns
    centroidsCsv,   \* the county centroid table _load_county_centroids reads
    aggStatus,      \* outcome of the last build_lights_monthly_by_coord
    loadStatus,     \* the last call of a loader of load_data.py or of build_all
    writers         \* the runs that are writing the final dataset with to_csv

vars == <<firmsCsv, retsCsv, lightsCsv, profCsv, hqCsv, panelCsv, regSample,
          mapStatus, panelStatus, regStatus, regPath, featStatus,
          rawLights, centroidsCsv, aggStatus, loadStatus, writers>>

---------------------------------------------------------------------------
(* Bounds and value domains *)

NumMonths == 3
Months == 1..NumMonths

NaN == {}
Num(x) == {x}
ValOf(v) == CHOOSE x \in v : TRUE

Min(S) == CHOOSE x \in S : \A y \in S : x <= y
Max(S) == CHOOSE x \in S : \A y \in S : x >= y

RECURSIVE Flatten(_)
Flatten(ss) == IF Len(ss) = 0 THEN <<>> ELSE Head(ss) \o Flatten(Tail(ss))

RECURSIVE SortedSeq(_)
SortedSeq(S) == IF S = {} THEN <<>> ELSE <<Min(S)>> \o SortedSeq(S \ {Min(S)})

\* Radiance values are exact fractions <<numerator, denominator>> in lowest terms
RECURSIVE Gcd(_, _)
Gcd(a, b) == IF b = 0 THEN a ELSE Gcd(b, a % b)
Abs(x) == IF x < 0 THEN 0 - x ELSE x
Frac(n, d) ==
    LET g == Gcd(Abs(n), d)
    IN IF n = 0 THEN <<0, 1>> ELSE <<n \div g, d \div g>>
Whole(x) == <<x, 1>>
FracAdd(a, b) == Frac((a[1] * b[2]) + (b[1] * a[2]), a[2] * b[2])
FracSub(a, b) == Frac((a[1] * b[2]) - (b[1] * a[2]), a[2] * b[2])

MissingFile == [exists |-> FALSE, rows |-> <<>>]
NoCall == [fn |-> "none", fallback |-> FALSE, existed |-> FALSE, result |-> "none"]
NoWriters == [runs |-> <<>>, last |-> 0]
File(rows) == [exists |-> TRUE, rows |-> rows]

TickerOrder == <<"AAA", "BBB">>
TickerRank(t) == CHOOSE i \in 1..Len(TickerOrder) : TickerOrder[i] = t

---------------------------------------------------------------------------
(* String cleaning of the merge keys *)

\* .astype(str).str.strip().str.lower()
StateKey(name) ==
    CASE name = "Texas" -> "texas"
      [] name = " texas " -> "texas"
      [] OTHER -> name

\* .astype(str).str.strip().str.lower().str.replace(" county", "", regex=False)
CountyKey(name) ==
    CASE name = "Alpha County" -> "alpha"
      [] name = "Alpha" -> "alpha"
      [] name = "Beta County" -> "beta"
      [] name = "Gamma County" -> "gamma"
      [] OTHER -> name

---------------------------------------------------------------------------
(* map_firms_to_counties.py *)

\* pd.to_numeric(errors="coerce") then dropna(subset=["lat", "lon"])
FirmsNorm(firms) == SelectSeq(firms, LAMBDA f : f.lat # NaN /\ f.lon # NaN)

\* lights[[...]].drop_duplicates("id_2"): the first row of every id_2
DropDuplicatesId2(lights) ==
    LET keep == {i \in 1..Len(lights) :
                    \A j \in 1..(i - 1) : lights[j].id_2 # lights[i].id_2}
    IN [k \in 1..Cardinality(keep) |->
            LET r == lights[SortedSeq(keep)[k]]
            IN [county_fips |-> r.id_2, county_name |-> r.name_2,
                state |-> r.name_1, lat_round |-> r.lat_round,
                lon_round |-> r.lon_round]]

\* counties.dropna(subset=["lat_round", "lon_round"])
Counties(lights) ==
    SelectSeq(DropDuplicatesId2(lights),
              LAMBDA c : c.lat_round # NaN /\ c.lon_round # NaN)

Sq(x) == x * x

Dist2FirstTermOnly(c, lat, lon) == Sq(ValOf(c.lat_round) - lat)

\* d = (counties["lat_round"] - lat) ** 2 + (counties["lon_round"] - lon) ** 2
Dist2(c, lat, lon) ==
    Sq(ValOf(c.lat_round) - lat) + Sq(ValOf(c.lon_round) - lon)

IdxMinLast(counties, lat, lon) ==
    Max({i \in 1..Len(counties) :
            \A j \in 1..Len(counties) :
                Dist2(counties[i], lat, lon) <= Dist2(counties[j], lat, lon)})

\* d.idxmin(): the first position holding the minimum
IdxMin(counties, lat, lon) ==
    Min({i \in 1..Len(counties) :
            \A j \in 1..Len(counties) :
                Dist2(counties[i], lat, lon) <= Dist2(counties[j], lat, lon)})

NearestCounty(counties, lat, lon) == counties[IdxMin(counties, lat, lon)]

HqRecords(firms, lights) ==
    LET fn == FirmsNorm(firms)
        cs == Counties(lights)
    IN [i \in 1..Len(fn) |->
            LET c == NearestCounty(cs, ValOf(fn[i].lat), ValOf(fn[i].lon))
            IN [ticker |-> fn[i].ticker, firm |-> fn[i].firm,
                county_fips |-> c.county_fips, county_name |-> c.county_name,
                state |-> c.state, lat |-> fn[i].lat, lon |-> fn[i].lon]]

\* Everything the function reports: the path it saved to, the number of
\* distinct counties mapped and the first rows of the mapping.  No firm is
\* reported as unmatched.
UnmatchedReported(firms, out) == {}

BuildFirmHqToCountyNoCheck ==
    /\ lightsCsv.exists
    /\ hqCsv' = File(IF Len(Counties(lightsCsv.rows)) = 0 THEN <<>>
                     ELSE HqRecords(firmsCsv, lightsCsv.rows))
    /\ mapStatus' = "ok"
    /\ UNCHANGED <<firmsCsv, retsCsv, lightsCsv, profCsv, panelCsv, regSample,
                   panelStatus, regStatus, regPath, featStatus,
                   rawLights, centroidsCsv, aggStatus, loadStatus, writers>>

\* pd.read_csv(COUNTIES) raises when the brightness file is missing
BuildFirmHqToCounty ==
    /\ IF ~lightsCsv.exists
       THEN /\ mapStatus' = "FileNotFoundError"
            /\ UNCHANGED hqCsv
       ELSE IF Len(Counties(lightsCsv.rows)) = 0
       THEN /\ mapStatus' = "ValueError"
            /\ UNCHANGED hqCsv
       ELSE /\ hqCsv' = File(HqRecords(firmsCsv, lightsCsv.rows))
            /\ mapStatus' = IF Len(FirmsNorm(firmsCsv)) = 0
                            THEN "KeyError" ELSE "ok"
    /\ UNCHANGED <<firmsCsv, retsCsv, lightsCsv, profCsv, panelCsv, regSample,
                   panelStatus, regStatus, regPath, featStatus,
                   rawLights, centroidsCsv, aggStatus, loadStatus, writers>>

---------------------------------------------------------------------------
(* build_panel.py *)

\* hq["state_key"], hq["county_key"] and the columns _load_hq_mapping returns
HqWithKeys(rows) ==
    [i \in 1..Len(rows) |->
        [ticker |-> rows[i].ticker, county_fips |-> rows[i].county_fips,
         state_full |-> rows[i].state_full, county_name |-> rows[i].county_name,
         state_key |-> StateKey(rows[i].state_full),
         county_key |-> CountyKey(rows[i].county_name)]]

\* firm_hq_county.csv: rename(columns={"state": "state_full"})
RenameState(rows) ==
    [i \in 1..Len(rows) |->
        [ticker |-> rows[i].ticker, county_fips |-> rows[i].county_fips,
         state_full |-> rows[i].state, county_name |-> rows[i].county_name]]

\* err is "" when the mapping was loaded
LoadHqMapping ==
    IF profCsv.exists
    THEN [err |-> "", rows |-> HqWithKeys(profCsv.rows)]
    ELSE IF hqCsv.exists
         THEN IF Len(hqCsv.rows) = 0
              THEN [err |-> "EmptyDataError", rows |-> <<>>]
              ELSE [err |-> "", rows |-> HqWithKeys(RenameState(hqCsv.rows))]
         ELSE [err |-> "FileNotFoundError", rows |-> <<>>]

\* lights["state_key"], lights["county_key"]
LightsWithKeys(lights) ==
    [i \in 1..Len(lights) |->
        [state_key |-> StateKey(lights[i].name_1),
         county_key |-> CountyKey(lights[i].name_2),
         date |-> lights[i].date, avg_rad_month |-> lights[i].avg_rad_month]]

\* on=["state_key", "county_key"]
MatchHqLights(h, l) == l.state_key = h.state_key /\ l.county_key = h.county_key

\* hq.merge(lights[[...]], on=["state_key", "county_key"], how="left")
MergeHqLights(hq, lights) ==
    Flatten([i \in 1..Len(hq) |->
        LET m == SelectSeq(lights, LAMBDA l : MatchHqLights(hq[i], l))
            base(d, a) ==
                [ticker |-> hq[i].ticker, county_fips |-> hq[i].county_fips,
                 state_full |-> hq[i].state_full,
                 state_key |-> hq[i].state_key, county_key |-> hq[i].county_key,
                 date |-> d, avg_rad_month |-> a]
        IN IF Len(m) = 0
           THEN <<base(NaN, NaN)>>
           ELSE [j \in 1..Len(m) |-> base(Num(m[j].date), m[j].avg_rad_month)]])

\* merged_count = panel["avg_rad_month"].notna().sum() and len(panel), printed
\* as "Non-missing brightness rows" after the first merge
BrightnessDiagnostic(hq, lights) ==
    LET p == MergeHqLights(hq, LightsWithKeys(lights))
    IN [matched |-> Cardinality({i \in 1..Len(p) : p[i].avg_rad_month # NaN}),
        total |-> Len(p)]

\* panel.merge(rets[["ticker", "date", "ret"]], on=["ticker", "date"], how="left")
MergeRets(panel, rets) ==
    Flatten([i \in 1..Len(panel) |->
        LET m == SelectSeq(rets, LAMBDA r : /\ r.ticker = panel[i].ticker
                                            /\ Num(r.date) = panel[i].date)
            base(x) ==
                [ticker |-> panel[i].ticker, county_fips |-> panel[i].county_fips,
                 state_full |-> panel[i].state_full,
                 state_key |-> panel[i].state_key,
                 county_key |-> panel[i].county_key,
                 date |-> panel[i].date,
                 avg_rad_month |-> panel[i].avg_rad_month, ret |-> x]
        IN IF Len(m) = 0
           THEN <<base(NaN)>>
           ELSE [j \in 1..Len(m) |-> base(Num(m[j].ret))]])

\* NaT sorts last (na_position="last")
DateRank(d) == IF d = NaN THEN NumMonths + 1 ELSE ValOf(d)

RowLE(a, b) ==
    \/ TickerRank(a.ticker) < TickerRank(b.ticker)
    \/ /\ a.ticker = b.ticker
       /\ DateRank(a.date) <= DateRank(b.date)

RECURSIVE InsertSorted(_, _)
InsertSorted(sorted, r) ==
    IF Len(sorted) = 0 THEN <<r>>
    ELSE IF RowLE(Head(sorted), r)
         THEN <<Head(sorted)>> \o InsertSorted(Tail(sorted), r)
         ELSE <<r>> \o sorted

\* panel.sort_values(["ticker", "date"]): a stable sort
RECURSIVE SortValues(_)
SortValues(rows) ==
    IF Len(rows) = 0 THEN <<>>
    ELSE InsertSorted(SortValues(SubSeq(rows, 1, Len(rows) - 1)), rows[Len(rows)])

\* panel.groupby("ticker")["ret"].shift(-1): the ret of the next row of the ticker
RetFwd(p, i) ==
    LET later == {j \in (i + 1)..Len(p) : p[j].ticker = p[i].ticker}
    IN IF later = {} THEN NaN ELSE p[Min(later)].ret

Sub(a, b) == IF a = NaN \/ b = NaN THEN NaN ELSE Num(FracSub(ValOf(a), ValOf(b)))

\* panel.groupby(["state_key", "county_key"])["avg_rad_month"].diff():
\* the value minus that of the previous row of the county, in table order
BrightnessChange(p, i) ==
    LET earlier == {j \in 1..(i - 1) : /\ p[j].state_key = p[i].state_key
                                        /\ p[j].county_key = p[i].county_key}
    IN IF earlier = {} THEN NaN
       ELSE Sub(p[i].avg_rad_month, p[Max(earlier)].avg_rad_month)

PanelRows(hq, lights, rets) ==
    LET p == SortValues(MergeRets(MergeHqLights(hq, LightsWithKeys(lights)), rets))
    IN [i \in 1..Len(p) |->
            [ticker |-> p[i].ticker, county_fips |-> p[i].county_fips,
             state_full |-> p[i].state_full,
             state_key |-> p[i].state_key, county_key |-> p[i].county_key,
             date |-> p[i].date, avg_rad_month |-> p[i].avg_rad_month,
             ret |-> p[i].ret, ret_fwd |-> RetFwd(p, i),
             brightness_change |-> BrightnessChange(p, i)]]

\* The mapping is loaded first; pd.read_csv(lights_path) raises when the
\* brightness file is missing
BuildPanelFirmsWithBrightness ==
    /\ IF LoadHqMapping.err # ""
       THEN /\ panelStatus' = LoadHqMapping.err
            /\ UNCHANGED panelCsv
       ELSE IF ~lightsCsv.exists
       THEN /\ panelStatus' = "FileNotFoundError"
            /\ UNCHANGED panelCsv
       ELSE /\ panelCsv' = File(PanelRows(LoadHqMapping.rows, lightsCsv.rows,
                                          retsCsv))
            /\ panelStatus' = "ok"
    /\ UNCHANGED <<firmsCsv, retsCsv, lightsCsv, profCsv, hqCsv, regSample,
                   mapStatus, regStatus, regPath, featStatus,
                   rawLights, centroidsCsv, aggStatus, loadStatus, writers>>

---------------------------------------------------------------------------
(* modeling.py *)

\* df.dropna(subset=["brightness_change", "ret_fwd"])
RegRows(rows) ==
    SelectSeq(rows, LAMBDA r : r.brightness_change # NaN /\ r.ret_fwd # NaN)

\* The clusters of the fit: cov_kwds={"groups": reg["ticker"]}
Clusters(sample) == {sample[i].ticker : i \in 1..Len(sample)}

\* What sm.OLS(y, X).fit(cov_type="cluster", ...) ends in.  Nothing is checked
\* before the fit.  An empty sample is rejected by the estimator.  With a
\* single cluster the small-sample correction divides by n_groups - 1 = 0:
\* the library either raises or returns a result, depending on its version.
FitOutcomes(sample) ==
    IF Len(sample) = 0 THEN {"ValueError"}
    ELSE IF Cardinality(Clusters(sample)) < 2
         THEN {"ZeroDivisionError", "fitted"}
         ELSE {"fitted"}

\* X = sm.add_constant(reg[["brightness_change"]]): the columns of the design.
\* add_constant leaves X alone when it already holds a constant non-zero
\* column.  There is no month column.
ModelingDesign(sample) ==
    LET vals == {sample[i].brightness_change : i \in 1..Len(sample)}
    IN IF Cardinality(vals) = 1 /\ vals # {Num(Whole(0))}
       THEN {<<"brightness_change">>}
       ELSE {<<"const">>, <<"brightness_change">>}

\* The keys of the dict run_basic_regression returns
ModelingResult ==
    {"alpha", "beta_brightness", "t_brightness", "p_brightness", "r2", "n_obs",
     "summary"}

RunBasicRegression ==
    /\ regPath' = "modeling"
    /\ IF ~panelCsv.exists
       THEN /\ regStatus' = "FileNotFoundError"
            /\ UNCHANGED regSample
       ELSE /\ regSample' = RegRows(panelCsv.rows)
            /\ regStatus' \in FitOutcomes(RegRows(panelCsv.rows))
    /\ UNCHANGED <<firmsCsv, retsCsv, lightsCsv, profCsv, hqCsv, panelCsv,
                   mapStatus, panelStatus, featStatus,
                   rawLights, centroidsCsv, aggStatus, loadStatus, writers>>

---------------------------------------------------------------------------
(* features.py *)

\* The names src/features.py imports from .load_data, and those load_data defines
FeaturesImports ==
    {"load_sp500_clean", "load_lights_monthly_by_coord",
     "load_returns_standardized", "save_model_data"}

LoadDataNames ==
    {"load_raw_lights", "load_raw_sp500", "load_sp500_clean", "load_raw_returns",
     "save_lights_monthly_by_coord", "load_lights_monthly_by_coord",
     "load_model_data"}

\* from .load_data import (...): fails when a name is not defined there
ImportFeatures ==
    IF FeaturesImports \subseteq LoadDataNames THEN "imported" ELSE "ImportError"

\* Importing src.features fails before build_features_and_model_data can run
BuildFeaturesAndModelData ==
    /\ featStatus' = ImportFeatures
    /\ UNCHANGED <<firmsCsv, retsCsv, lightsCsv, profCsv, hqCsv, panelCsv,
                   regSample, mapStatus, panelStatus, regStatus, regPath,
                   rawLights, centroidsCsv, aggStatus, loadStatus, writers>>

---------------------------------------------------------------------------
(* pages/5_Regression.py *)

PageCleanDateOnly(rows) == SelectSeq(rows, LAMBDA r : r.date # NaN)

\* df.dropna(subset=["date"]) and df.dropna(subset=["brightness_change", y_col])
\* with y_col = "ret_fwd", a required column
PageClean(rows) ==
    SelectSeq(rows, LAMBDA r : /\ r.date # NaN
                               /\ r.brightness_change # NaN
                               /\ r.ret_fwd # NaN)

\* df["brightness_change"].nunique()
Nunique(rows) == Cardinality({rows[i].brightness_change : i \in 1..Len(rows)})

\* The sidebar choices: the state, then the ticker among those left
StateOptions(rows) ==
    {"All states"} \cup {rows[i].state_full : i \in 1..Len(rows)}
StateFilter(rows, choice) ==
    IF choice = "All states" THEN rows
    ELSE SelectSeq(rows, LAMBDA r : r.state_full = choice)

TickerOptions(rows) == {"All tickers"} \cup {rows[i].ticker : i \in 1..Len(rows)}
TickerFilter(rows, choice) ==
    IF choice = "All tickers" THEN rows
    ELSE SelectSeq(rows, LAMBDA r : r.ticker = choice)

\* The sample window is chosen between the first and last date that are left
DateOptions(rows) ==
    LET ds == {ValOf(rows[i].date) : i \in 1..Len(rows)}
    IN IF ds = {} THEN {} ELSE Min(ds)..Max(ds)
DateFilter(rows, start, end) ==
    SelectSeq(rows, LAMBDA r : ValOf(r.date) >= start /\ ValOf(r.date) <= end)

\* smf.ols(formula, data=df).fit(cov_type="HC1") inside try/except: an empty
\* frame makes the fit raise, which the page reports and stops on; any other
\* frame is fitted (a rank-deficient design is solved with the pseudo-inverse)
\* and the coefficient of brightness_change is shown.
PageFit(sample) == IF Len(sample) = 0 THEN "failed" ELSE "fitted"

\* formula = "ret_fwd ~ brightness_change + C(year_month)": the intercept, the
\* brightness term and one indicator per month of the sample but the first
PageDesign(sample) ==
    LET ms == {ValOf(sample[i].date) : i \in 1..Len(sample)}
    IN {<<"Intercept">>, <<"brightness_change">>}
       \cup {<<"C(year_month)", m>> : m \in ms \ {Min(ms)}}

\* What the page shows of the fit: the three metrics, the key coefficient with
\* its t-statistic and p-value, the coefficient table and the partial
\* regression plot built from the two month-only fits
PageResult ==
    {"n_obs", "r2", "r2_adj", "beta_brightness", "t_brightness", "p_brightness",
     "coefficient_table", "partial_regression_plot"}

RegressionPage ==
    /\ regPath' = "page"
    /\ IF ~panelCsv.exists
       THEN \* load_model_data(fallback_if_missing=True) imports src.features
            /\ featStatus' = ImportFeatures
            /\ regStatus' = ImportFeatures
            /\ regSample' = <<>>
       ELSE /\ UNCHANGED featStatus
            /\ LET clean == PageClean(panelCsv.rows)
               IN IF Len(panelCsv.rows) = 0 \/ Len(clean) = 0 \/ Nunique(clean) < 2
                  THEN /\ regStatus' = "stopped"
                       /\ regSample' = <<>>
                  ELSE \E st \in StateOptions(clean) :
                       \E tk \in TickerOptions(StateFilter(clean, st)) :
                       LET left == TickerFilter(StateFilter(clean, st), tk)
                       IN \E start \in DateOptions(left) :
                          \E end \in DateOptions(left) :
                             /\ start <= end
                             /\ regSample' = DateFilter(left, start, end)
                             /\ regStatus' = PageFit(DateFilter(left, start, end))
    /\ UNCHANGED <<firmsCsv, retsCsv, lightsCsv, profCsv, hqCsv, panelCsv,
                   mapStatus, panelStatus,
                   rawLights, centroidsCsv, aggStatus, loadStatus, writers>>

---------------------------------------------------------------------------
(* preprocess_lights.py *)

CutoffYear == 2018

\* pd.to_datetime(dict(year=..., month=..., day=1)) as a month number:
\* January of the cutoff year is month 1
MonthOf(year, month) == ((year - CutoffYear) * 12) + month

KeepAllCountries(raw) == raw

\* lights_raw[lights_raw["iso"] == "USA"]
KeepUsa(raw) == SelectSeq(raw, LAMBDA r : r.iso = "USA")

\* lights.loc[lights["date"] >= cutoff]
KeepWindow(rows) ==
    SelectSeq(rows, LAMBDA r : MonthOf(r.year, r.month) >= MonthOf(CutoffYear, 1))

\* lights["avg_rad_month"] = lights["nlsum"] / lights["area"]
WithRatio(rows) ==
    [i \in 1..Len(rows) |->
        [iso |-> rows[i].iso, name_1 |-> rows[i].name_1, id_2 |-> rows[i].id_2,
         name_2 |-> rows[i].name_2, date |-> MonthOf(rows[i].year, rows[i].month),
         avg_rad_month |-> Frac(rows[i].nlsum, rows[i].area)]]

\* group_cols = ["iso", "id_1", "name_1", "id_2", "name_2", "date"]
GroupKey(r) == <<r.iso, r.name_1, r.id_2, r.name_2, r.date>>

Id2Rank(id) == CASE id = "1001" -> 1 [] id = "1003" -> 2
Name2Rank(n) ==
    CASE n = "Alpha" -> 1 [] n = "Alpha County" -> 2 [] n = "Beta County" -> 3

\* groupby returns the groups in ascending key order (iso and name_1 are equal
\* in every row that is left)
GroupLE(a, b) ==
    \/ Id2Rank(a[3]) < Id2Rank(b[3])
    \/ /\ a[3] = b[3]
       /\ \/ Name2Rank(a[4]) < Name2Rank(b[4])
          \/ a[4] = b[4] /\ a[5] <= b[5]

RECURSIVE SortedGroups(_)
SortedGroups(K) ==
    IF K = {} THEN <<>>
    ELSE LET m == CHOOSE k \in K : \A o \in K : GroupLE(k, o)
         IN <<m>> \o SortedGroups(K \ {m})

RECURSIVE FracSum(_)
FracSum(fs) == IF Len(fs) = 0 THEN <<0, 1>> ELSE FracAdd(Head(fs), FracSum(Tail(fs)))

RECURSIVE IntSum(_)
IntSum(xs) == IF Len(xs) = 0 THEN 0 ELSE Head(xs) + IntSum(Tail(xs))

GroupMeanOffByOne(rows) ==
    LET fs == [i \in 1..Len(rows) |-> rows[i].avg_rad_month]
    IN Frac(FracSum(fs)[1], FracSum(fs)[2] * (Len(rows) + 1))

\* .mean() of the per-row ratios of the group
GroupMean(rows) ==
    LET fs == [i \in 1..Len(rows) |-> rows[i].avg_rad_month]
    IN Frac(FracSum(fs)[1], FracSum(fs)[2] * Len(rows))

\* lights.groupby(group_cols, as_index=False)["avg_rad_month"].mean()
Aggregate(rows) ==
    LET g == SortedGroups({GroupKey(rows[i]) : i \in 1..Len(rows)})
    IN [k \in 1..Len(g) |->
            [iso |-> g[k][1], name_1 |-> g[k][2], id_2 |-> g[k][3],
             name_2 |-> g[k][4], date |-> g[k][5],
             avg_rad_month |->
                Num(GroupMean(SelectSeq(rows, LAMBDA r : GroupKey(r) = g[k])))]]

\* .astype(str).str.zfill(5)
Zfill5(id) ==
    CASE id = "1001" -> "01001"
      [] id = "1003" -> "01003"
      [] OTHER -> id

\* df["fips_code"] = df[fips_col].astype(str).str.zfill(5)
NormCentroids(cs) ==
    [i \in 1..Len(cs) |->
        [fips_code |-> Zfill5(cs[i].fips), lat |-> cs[i].lat, lng |-> cs[i].lng]]

\* agg.merge(county_centroids, left_on="id_2_str", right_on="fips_code", how="left")
MergeCentroids(agg, cs) ==
    Flatten([i \in 1..Len(agg) |->
        LET m == SelectSeq(cs, LAMBDA c : c.fips_code = Zfill5(agg[i].id_2))
            base(la, lo) ==
                [iso |-> agg[i].iso, name_1 |-> agg[i].name_1,
                 id_2 |-> agg[i].id_2, name_2 |-> agg[i].name_2,
                 date |-> agg[i].date, avg_rad_month |-> agg[i].avg_rad_month,
                 lat_round |-> la, lon_round |-> lo]
        IN IF Len(m) = 0
           THEN <<base(NaN, NaN)>>
           ELSE [j \in 1..Len(m) |-> base(Num(m[j].lat), Num(m[j].lng))]])

LightsMonthlyByCoord(raw, cs) ==
    MergeCentroids(Aggregate(WithRatio(KeepWindow(KeepUsa(raw)))),
                   NormCentroids(cs))

\* load_raw_lights fails on an empty table: int(df["year"].min()) of NaN
BuildLightsMonthlyByCoord ==
    /\ IF Len(rawLights) = 0
       THEN /\ aggStatus' = "ValueError"
            /\ UNCHANGED lightsCsv
       ELSE /\ lightsCsv' = File(LightsMonthlyByCoord(rawLights, centroidsCsv))
            /\ aggStatus' = "ok"
    /\ UNCHANGED <<firmsCsv, retsCsv, profCsv, hqCsv, panelCsv, regSample,
                   mapStatus, panelStatus, regStatus, regPath, featStatus,
                   rawLights, centroidsCsv, loadStatus, writers>>

---------------------------------------------------------------------------
(* load_data.py and scripts/build_all.py *)

Call(fn, fb, existed, result) ==
    [fn |-> fn, fallback |-> fb, existed |-> existed, result |-> result]

\* load_lights_monthly_by_coord(fallback_if_missing): reads the file when it
\* exists; otherwise raises, or runs build_lights_monthly_by_coord, which saves
LoadLightsMonthlyByCoord ==
    /\ \E fb \in BOOLEAN :
        LET call(res) == Call("load_lights_monthly_by_coord", fb, lightsCsv.exists, res)
        IN IF lightsCsv.exists
           THEN /\ loadStatus' = call("read")
                /\ UNCHANGED <<lightsCsv, aggStatus>>
           ELSE IF ~fb
           THEN /\ loadStatus' = call("FileNotFoundError")
                /\ UNCHANGED <<lightsCsv, aggStatus>>
           ELSE IF Len(rawLights) = 0
           THEN /\ loadStatus' = call("ValueError")
                /\ aggStatus' = "ValueError"
                /\ UNCHANGED lightsCsv
           ELSE /\ loadStatus' = call("built")
                /\ aggStatus' = "ok"
                /\ lightsCsv' = File(LightsMonthlyByCoord(rawLights, centroidsCsv))
    /\ UNCHANGED <<firmsCsv, retsCsv, profCsv, hqCsv, panelCsv, regSample,
                   mapStatus, panelStatus, regStatus, regPath, featStatus,
                   rawLights, centroidsCsv, writers>>

\* load_model_data(fallback_if_missing): reads the file when it exists;
\* otherwise raises, or imports src.features to build it
LoadModelData ==
    /\ \E fb \in BOOLEAN :
        LET call(res) == Call("load_model_data", fb, panelCsv.exists, res)
        IN IF panelCsv.exists
           THEN /\ loadStatus' = call("read")
                /\ UNCHANGED featStatus
           ELSE IF ~fb
           THEN /\ loadStatus' = call("FileNotFoundError")
                /\ UNCHANGED featStatus
           ELSE /\ loadStatus' = call(IF ImportFeatures = "imported"
                                       THEN "built" ELSE ImportFeatures)
                /\ featStatus' = ImportFeatures
    /\ UNCHANGED <<firmsCsv, retsCsv, lightsCsv, profCsv, hqCsv, panelCsv,
                   regSample, mapStatus, panelStatus, regStatus, regPath,
                   rawLights, centroidsCsv, aggStatus, writers>>

\* scripts/build_all.py main: load_model_data(fallback_if_missing=False), then
\* the frame it read is written back to the same path
BuildAll ==
    /\ loadStatus' = Call("build_all", FALSE, panelCsv.exists,
                          IF panelCsv.exists THEN "ok" ELSE "FileNotFoundError")
    /\ panelCsv' = IF panelCsv.exists THEN File(panelCsv.rows) ELSE panelCsv
    /\ UNCHANGED <<firmsCsv, retsCsv, lightsCsv, profCsv, hqCsv, regSample,
                   mapStatus, panelStatus, regStatus, regPath, featStatus,
                   rawLights, centroidsCsv, aggStatus, writers>>

---------------------------------------------------------------------------
(* The input files of the firm-level pipeline *)

RegionName1(r) == "Texas"

RegionName2(r) ==
    CASE r = "R1" -> "Alpha County"
      [] r = "R2" -> "Beta County"
      [] r = "R3" -> "Alpha"

\* R3 has no centroid: its id_2 was not found in the county centroid list
RegionLat(r) == CASE r = "R1" -> Num(10) [] r = "R2" -> Num(50) [] r = "R3" -> NaN
RegionLon(r) == CASE r = "R1" -> Num(10) [] r = "R2" -> Num(50) [] r = "R3" -> NaN

\* avg_rad_month of region r in month m; R1 starts 10, 12, 9
Radiance(r, m) ==
    CASE r = "R1" -> IF m = 1 THEN 10 ELSE IF m = 2 THEN 12 ELSE 6 + m
      [] r = "R2" -> 30 + (m * m)
      [] r = "R3" -> 50 + (7 * m)

RegionRows(r, ms) ==
    [k \in 1..Cardinality(ms) |->
        [iso |-> "USA", id_2 |-> r, name_1 |-> RegionName1(r),
         name_2 |-> RegionName2(r), date |-> SortedSeq(ms)[k],
         avg_rad_month |-> Num(Whole(Radiance(r, SortedSeq(ms)[k]))),
         lat_round |-> RegionLat(r), lon_round |-> RegionLon(r)]]

\* One row per (id_2, date), ordered by id_2 and date as groupby leaves them;
\* also the table with no row, and the table whose only region has no centroid
LightsTables ==
    {RegionRows("R1", ms1) \o RegionRows("R2", Months) \o RegionRows("R3", ms3) :
        ms1 \in (SUBSET Months) \ {{}}, ms3 \in {{}, Months}}
    \cup {<<>>, RegionRows("R3", Months)}

\* The return of ticker t in month m, in units of 0.01
ReturnOf(t, m) == IF t = "AAA" THEN m ELSE 10 + (2 * m)

TickerReturns(t, ms) ==
    [k \in 1..Cardinality(ms) |->
        [ticker |-> t, date |-> SortedSeq(ms)[k],
         ret |-> ReturnOf(t, SortedSeq(ms)[k])]]

ReturnTables ==
    {TickerReturns("AAA", a) \o TickerReturns("BBB", b) :
        a \in SUBSET Months, b \in {{}, Months}}

Firm(t, lat, lon) == [ticker |-> t, firm |-> t, lat |-> lat, lon |-> lon]

FirmTables ==
    {<<Firm("AAA", Num(10), Num(10))>>} \cup
    {<<Firm("AAA", Num(10), Num(10)), Firm("BBB", b[1], b[2])>> :
        b \in {<<Num(10), Num(10)>>, <<Num(50), Num(50)>>, <<Num(20), Num(50)>>,
               <<Num(30), Num(30)>>, <<NaN, Num(10)>>}}

\* hq_with_county.csv when present: BBB sits in a county the lights do not cover
ProfMapping ==
    <<[ticker |-> "AAA", county_fips |-> "R1", state_full |-> "Texas",
       county_name |-> "Alpha County"],
      [ticker |-> "BBB", county_fips |-> "R9", state_full |-> "Texas",
       county_name |-> "Gamma County"]>>

Init ==
    /\ firmsCsv \in FirmTables
    /\ retsCsv \in ReturnTables
    /\ lightsCsv \in {File(t) : t \in LightsTables}
    /\ profCsv \in {MissingFile, File(ProfMapping)}
    /\ hqCsv = MissingFile
    /\ panelCsv = MissingFile
    /\ regSample = <<>>
    /\ mapStatus = "not_run"
    /\ panelStatus = "not_run"
    /\ regStatus = "not_run"
    /\ regPath = "none"
    /\ featStatus = "not_run"
    /\ rawLights = <<>>
    /\ centroidsCsv = <<>>
    /\ aggStatus = "not_run"
    /\ loadStatus = NoCall
    /\ writers = NoWriters

Next ==
    \/ BuildFirmHqToCounty
    \/ BuildPanelFirmsWithBrightness
    \/ RunBasicRegression
    \/ BuildFeaturesAndModelData
    \/ RegressionPage

Spec == Init /\ [][Next]_vars

---------------------------------------------------------------------------
(* The inputs of the brightness aggregation *)

MaxRawRows == 2

RawIso == <<"USA", "CAN">>
RawRegion ==
    <<[id_2 |-> "1001", name_2 |-> "Alpha County"],
      [id_2 |-> "1001", name_2 |-> "Alpha"],
      [id_2 |-> "1003", name_2 |-> "Beta County"]>>
RawYearMonth == <<<<2017, 12>>, <<2018, 1>>, <<2018, 2>>>>
RawNlsumArea == <<<<2, 1>>, <<2, 2>>>>

NumRawRows == Len(RawIso) * Len(RawRegion) * Len(RawYearMonth) * Len(RawNlsumArea)

\* The k-th row of the raw row domain
RawRowAt(k) ==
    LET v == (k - 1) % Len(RawNlsumArea)
        y == ((k - 1) \div Len(RawNlsumArea)) % Len(RawYearMonth)
        g == ((k - 1) \div (Len(RawNlsumArea) * Len(RawYearMonth))) % Len(RawRegion)
        c == (k - 1) \div (Len(RawNlsumArea) * Len(RawYearMonth) * Len(RawRegion))
    IN [iso |-> RawIso[c + 1], name_1 |-> "Texas",
        id_2 |-> RawRegion[g + 1].id_2, name_2 |-> RawRegion[g + 1].name_2,
        year |-> RawYearMonth[y + 1][1], month |-> RawYearMonth[y + 1][2],
        nlsum |-> RawNlsumArea[v + 1][1], area |-> RawNlsumArea[v + 1][2]]

\* The subsets of S with at most n elements
RECURSIVE SubsetsUpTo(_, _)
SubsetsUpTo(S, n) ==
    IF n = 0 THEN {{}}
    ELSE SubsetsUpTo(S, n - 1) \cup
         {p \cup {x} : p \in SubsetsUpTo(S, n - 1), x \in S}

RawTables ==
    {[k \in 1..Cardinality(I) |-> RawRowAt(SortedSeq(I)[k])] :
        I \in SubsetsUpTo(1..NumRawRows, MaxRawRows)}

Centroid(f, lat, lng) == [fips |-> f, lat |-> lat, lng |-> lng]

\* The third table lists county 1001 twice
CentroidTables ==
    {<<>>,
     <<Centroid("1001", 10, 10), Centroid("1003", 50, 50)>>,
     <<Centroid("1001", 10, 10), Centroid("01001", 11, 11),
       Centroid("1003", 50, 50)>>}

InitAgg ==
    /\ rawLights \in RawTables
    /\ centroidsCsv \in CentroidTables
    /\ lightsCsv = MissingFile
    /\ aggStatus = "not_run"
    /\ loadStatus = NoCall
    /\ writers = NoWriters
    /\ firmsCsv = <<>>
    /\ retsCsv = <<>>
    /\ profCsv = MissingFile
    /\ hqCsv = MissingFile
    /\ panelCsv = MissingFile
    /\ regSample = <<>>
    /\ mapStatus = "not_run"
    /\ panelStatus = "not_run"
    /\ regStatus = "not_run"
    /\ regPath = "none"
    /\ featStatus = "not_run"

NextAgg == BuildLightsMonthlyByCoord

SpecAgg == InitAgg /\ [][NextAgg]_vars

---------------------------------------------------------------------------
(* A project directory in which every script and loader can be run *)

RawRow(iso, id, name, y, m, nlsum, area) ==
    [iso |-> iso, name_1 |-> "Texas", id_2 |-> id, name_2 |-> name,
     year |-> y, month |-> m, nlsum |-> nlsum, area |-> area]

\* No row; county 1001 in January 2018; in January and February 2018; a
\* Canadian row only
RunRawTables ==
    {<<>>,
     <<RawRow("USA", "1001", "Alpha County", 2018, 1, 2, 1)>>,
     <<RawRow("USA", "1001", "Alpha County", 2018, 1, 2, 1),
       RawRow("USA", "1001", "Alpha County", 2018, 2, 2, 2)>>,
     <<RawRow("CAN", "1001", "Alpha County", 2018, 1, 2, 1)>>}

RunCentroidTables ==
    {<<>>, <<Centroid("1001", 10, 10), Centroid("1003", 50, 50)>>}

\* One firm, with or without a latitude
RunFirmTables ==
    {<<Firm("AAA", Num(10), Num(10))>>, <<Firm("AAA", NaN, Num(10))>>}

\* The files an earlier run left, made from other raw inputs
StaleLights ==
    LightsMonthlyByCoord(<<RawRow("USA", "1001", "Alpha County", 2018, 1, 2, 2),
                           RawRow("USA", "1001", "Alpha County", 2018, 2, 2, 1)>>,
                         <<Centroid("1001", 10, 10)>>)
StalePanel ==
    PanelRows(HqWithKeys(RenameState(HqRecords(<<Firm("AAA", Num(10), Num(10))>>,
                                                StaleLights))),
              StaleLights, TickerReturns("AAA", {1}))

InitRun ==
    /\ rawLights \in RunRawTables
    /\ centroidsCsv \in RunCentroidTables
    /\ firmsCsv \in RunFirmTables
    /\ retsCsv = TickerReturns("AAA", {1, 2})
    /\ lightsCsv \in {MissingFile, File(StaleLights)}
    /\ panelCsv \in {MissingFile, File(StalePanel)}
    /\ profCsv = MissingFile
    /\ hqCsv = MissingFile
    /\ regSample = <<>>
    /\ mapStatus = "not_run"
    /\ panelStatus = "not_run"
    /\ regStatus = "not_run"
    /\ regPath = "none"
    /\ featStatus = "not_run"
    /\ aggStatus = "not_run"
    /\ loadStatus = NoCall
    /\ writers = NoWriters

NextRun ==
    \/ BuildLightsMonthlyByCoord
    \/ BuildFirmHqToCounty
    \/ BuildPanelFirmsWithBrightness
    \/ LoadLightsMonthlyByCoord
    \/ LoadModelData
    \/ BuildAll

SpecRun == InitRun /\ [][NextRun]_vars

---------------------------------------------------------------------------
(* Two runs that write nightlights_model_data.csv with DataFrame.to_csv.   *)
(* to_csv opens the path for writing, which empties the file, writes the   *)
(* table from the start through its own handle, piece by piece, and closes *)
(* the handle; nothing locks the path.                                     *)

NumWriters == 2

\* The panel of firm AAA over the months ms, the output of one run
WriteOutput(ms) ==
    PanelRows(HqWithKeys(RenameState(HqRecords(<<Firm("AAA", Num(10), Num(10))>>,
                                                RegionRows("R1", ms)))),
              RegionRows("R1", ms), TickerReturns("AAA", ms))

WriteOutputs == {WriteOutput({1}), WriteOutput({1, 2}), WriteOutput({1, 2, 3})}

Writer(out) == [out |-> out, pos |-> 0, state |-> "idle"]

\* The bytes a file holds where nothing was written after a later offset was
Hole == [hole |-> TRUE]

\* The file after `row` is written at offset pos (counted in rows)
WriteAt(rows, pos, row) ==
    [k \in 1..(IF Len(rows) > pos THEN Len(rows) ELSE pos + 1) |->
        IF k = pos + 1 THEN row
        ELSE IF k <= Len(rows) THEN rows[k]
        ELSE Hole]

\* open(path, "w")
OpenForWrite(i) ==
    /\ writers.runs[i].state = "idle"
    /\ panelCsv' = File(<<>>)
    /\ writers' = [writers EXCEPT !.runs[i].state = "open"]

\* one piece of the table goes to the file at the handle's offset; `last` is
\* the run that wrote the final piece of its table most recently
WriteRow(i) ==
    LET w == writers.runs[i]
    IN /\ w.state = "open"
       /\ w.pos < Len(w.out)
       /\ panelCsv' = File(WriteAt(panelCsv.rows, w.pos, w.out[w.pos + 1]))
       /\ writers' = [writers EXCEPT !.runs[i].pos = w.pos + 1,
                                     !.last = IF w.pos + 1 = Len(w.out)
                                              THEN i ELSE @]

\* the handle is closed when the whole table has been written
CloseFile(i) ==
    LET w == writers.runs[i]
    IN /\ w.state = "open"
       /\ w.pos = Len(w.out)
       /\ panelCsv' = panelCsv
       /\ writers' = [writers EXCEPT !.runs[i].state = "done"]

WriteUnchanged ==
    UNCHANGED <<firmsCsv, retsCsv, lightsCsv, profCsv, hqCsv, regSample,
                mapStatus, panelStatus, regStatus, regPath, featStatus,
                rawLights, centroidsCsv, aggStatus, loadStatus>>

ToCsvOpen == (\E i \in 1..NumWriters : OpenForWrite(i)) /\ WriteUnchanged
ToCsvWrite == (\E i \in 1..NumWriters : WriteRow(i)) /\ WriteUnchanged
ToCsvClose == (\E i \in 1..NumWriters : CloseFile(i)) /\ WriteUnchanged

InitWrite ==
    /\ writers \in {[runs |-> <<Writer(a), Writer(b)>>, last |-> 0] :
                        a \in WriteOutputs, b \in WriteOutputs}
    /\ panelCsv \in {MissingFile} \cup {File(o) : o \in WriteOutputs}
    /\ firmsCsv = <<Firm("AAA", Num(10), Num(10))>>
    /\ retsCsv = TickerReturns("AAA", {1, 2, 3})
    /\ lightsCsv = File(RegionRows("R1", {1, 2, 3}))
    /\ profCsv = MissingFile
    /\ hqCsv = MissingFile
    /\ regSample = <<>>
    /\ mapStatus = "not_run"
    /\ panelStatus = "not_run"
    /\ regStatus = "not_run"
    /\ regPath = "none"
    /\ featStatus = "not_run"
    /\ rawLights = <<>>
    /\ centroidsCsv = <<>>
    /\ aggStatus = "not_run"
    /\ loadStatus = NoCall

NextWrite ==
    \/ ToCsvOpen
    \/ ToCsvWrite
    \/ ToCsvClose

SpecWrite == InitWrite /\ [][NextWrite]_vars

---------------------------------------------------------------------------
(* Properties of the firm-level pipeline, checked under Spec *)

Range(f) == {f[i] : i \in DOMAIN f}

Panel == panelCsv.rows
Lights == lightsCsv.rows

\* The return the return table records for ticker t in month m
RecordedReturn(t, m) ==
    LET s == {i \in 1..Len(retsCsv) : retsCsv[i].ticker = t /\ retsCsv[i].date = m}
    IN IF s = {} THEN NaN ELSE Num(retsCsv[Min(s)].ret)

\* The months and values of region id f in the brightness table
RegionMonths(f) == {l.date : l \in {x \in Range(Lights) : x.id_2 = f}}
RegionValue(f, m) ==
    IF m \in RegionMonths(f)
    THEN (CHOOSE l \in Range(Lights) : l.id_2 = f /\ l.date = m).avg_rad_month
    ELSE NaN

\* C1: every panel row (t, m) carries as forward return the return recorded
\* for t in calendar month m+1, and a missing value when none is recorded.
C1_ForwardReturnIsNextMonth ==
    panelCsv.exists =>
        \A r \in Range(Panel) :
            r.date # NaN =>
                r.ret_fwd = RecordedReturn(r.ticker, ValOf(r.date) + 1)

\* C2: every panel row's brightness change is the intensity of its region in
\* its month minus the intensity of that region in the previous month of the
\* region's own series, and is missing in the first month of the series.
C2_ChangeWithinRegionSeries ==
    panelCsv.exists =>
        \A r \in Range(Panel) :
            r.date # NaN =>
                LET f == r.county_fips
                    m == ValOf(r.date)
                    before == {k \in RegionMonths(f) : k < m}
                IN r.brightness_change =
                        IF before = {} THEN NaN
                        ELSE Sub(RegionValue(f, m), RegionValue(f, Max(before)))

\* The end-to-end example: AAA at (10,10), R1 at (10,10) with brightness 10, 12
\* in January and February, R2 at (50,50), returns 0.01, 0.02, 0.03
ExampleInputs ==
    /\ firmsCsv = <<Firm("AAA", Num(10), Num(10))>>
    /\ lightsCsv = File(RegionRows("R1", {1, 2}) \o RegionRows("R2", Months))
    /\ retsCsv = TickerReturns("AAA", {1, 2, 3})
    /\ ~profCsv.exists

RowsAt(t, m) == {r \in Range(Panel) : r.ticker = t /\ r.date = Num(m)}

\* C3: on the example the January row of AAA has a missing brightness change
\* and is not in the regression input, and the February row has brightness
\* change 2 and forward return 0.03.
C3_EndToEndExample ==
    (ExampleInputs /\ panelCsv.exists /\ regStatus \in {"fitted", "ValueError"}) =>
        /\ \E r \in RowsAt("AAA", 1) :
                RowsAt("AAA", 1) = {r} /\ r.brightness_change = NaN
                    /\ r \notin Range(regSample)
        /\ \E r \in RowsAt("AAA", 2) :
                RowsAt("AAA", 2) = {r} /\ r.brightness_change = Num(Whole(2))
                    /\ r.ret_fwd = Num(3)

SquaredDistance(lat1, lon1, lat2, lon2) ==
    ((lat1 - lat2) * (lat1 - lat2)) + ((lon1 - lon2) * (lon1 - lon2))

\* The regions with a usable centroid
ValidRegions ==
    {l \in Range(Lights) : l.lat_round # NaN /\ l.lon_round # NaN}

DistanceTo(h, l) ==
    SquaredDistance(ValOf(h.lat), ValOf(h.lon),
                    ValOf(l.lat_round), ValOf(l.lon_round))

\* C4: the region the matcher assigns to a firm is a region with a valid
\* centroid that is at least as near (squared distance in latitude and
\* longitude) as every other such region; a firm that sits on a region's
\* centroid is assigned a region at distance 0, and that very region when no
\* other region shares the centroid.
C4_NearestCentroid ==
    hqCsv.exists =>
        \A h \in Range(hqCsv.rows) :
            \E a \in ValidRegions :
                /\ a.id_2 = h.county_fips
                /\ \A o \in ValidRegions : DistanceTo(h, a) <= DistanceTo(h, o)
                /\ \A o \in ValidRegions :
                        DistanceTo(h, o) = 0 =>
                            /\ DistanceTo(h, a) = 0
                            /\ (\A q \in ValidRegions :
                                    DistanceTo(h, q) = 0 => q.id_2 = o.id_2)
                                => h.county_fips = o.id_2

\* C4 witness: AAA sits on R1's centroid and is matched to R1, BBB at (20,50)
\* is matched to R2, and a region without centroid is in the table.
C4_Witness ==
    /\ hqCsv.exists
    /\ \E h \in Range(hqCsv.rows) :
            h.ticker = "AAA" /\ h.county_fips = "R1" /\ h.lat = Num(10)
    /\ \E h \in Range(hqCsv.rows) :
            h.ticker = "BBB" /\ h.county_fips = "R2" /\ h.lat = Num(20)
    /\ \E l \in Range(Lights) : l.lat_round = NaN

\* C7: the panel has at most one row per (ticker, month), and every row's
\* (ticker, month) is a pair of the return table.
C7_OneRowPerReturnObservation ==
    panelCsv.exists =>
        /\ \A i, j \in 1..Len(Panel) :
                (Panel[i].ticker = Panel[j].ticker /\ Panel[i].date = Panel[j].date)
                    => i = j
        /\ \A r \in Range(Panel) :
                /\ r.date # NaN
                /\ RecordedReturn(r.ticker, ValOf(r.date)) # NaN

\* C8: every panel row's intensity is the brightness value of the region id
\* the mapping assigns to the row's ticker, at the row's own month.
C8_IntensityOfAssignedRegionId ==
    panelCsv.exists =>
        \A r \in Range(Panel) :
            r.avg_rad_month # NaN =>
                \E l \in Range(Lights) :
                    /\ l.id_2 = r.county_fips
                    /\ Num(l.date) = r.date
                    /\ l.avg_rad_month = r.avg_rad_month

\* C9: every panel row has a brightness row of its firm's region for its
\* month: no row is kept with a missing intensity or a missing month.
C9_InnerJoins ==
    panelCsv.exists =>
        \A r \in Range(Panel) :
            /\ r.date # NaN
            /\ r.avg_rad_month # NaN
            /\ \E l \in Range(Lights) :
                    /\ StateKey(l.name_1) = r.state_key
                    /\ CountyKey(l.name_2) = r.county_key
                    /\ Num(l.date) = r.date

\* The last month for which the return table records a return of ticker t
ReturnMonths(t) == {x.date : x \in {y \in Range(retsCsv) : y.ticker = t}}

\* C10: the panel row of a ticker's last observed month has a missing forward
\* return and is not part of the regression input.
C10_LastMonthForwardMissing ==
    panelCsv.exists =>
        \A r \in Range(Panel) :
            (/\ ReturnMonths(r.ticker) # {}
             /\ r.date = Num(Max(ReturnMonths(r.ticker)))) =>
                /\ r.ret_fwd = NaN
                /\ r \notin Range(regSample)

\* C11: a panel row on the first observed month of its region's brightness
\* series has a missing brightness change: it is not computed from another
\* row, of another firm or of a later month.
C11_FirstMonthChangeMissing ==
    panelCsv.exists =>
        \A r \in Range(Panel) :
            (/\ r.date # NaN
             /\ RegionMonths(r.county_fips) # {}
             /\ ValOf(r.date) = Min(RegionMonths(r.county_fips))) =>
                r.brightness_change = NaN

\* C12: whichever code ran the regression, no row of the estimator's input has
\* a missing brightness change or a missing forward return.
C12_NoMissingInEstimatorInput ==
    \A r \in Range(regSample) : r.brightness_change # NaN /\ r.ret_fwd # NaN

\* C12 witness: the page fitted a sample taken from a panel that holds a row
\* with a missing brightness change and a row with a missing forward return.
C12_Witness ==
    /\ regPath = "page" /\ regStatus = "fitted" /\ Len(regSample) > 0
    /\ \E r \in Range(Panel) :
            r.date # NaN /\ r.brightness_change = NaN /\ r.ret_fwd # NaN
    /\ \E r \in Range(Panel) :
            r.date # NaN /\ r.brightness_change # NaN /\ r.ret_fwd = NaN

\* The distinct brightness changes of the estimator's input
SampleChanges == {regSample[i].brightness_change : i \in 1..Len(regSample)}

\* C13: when the sample handed to the estimator has a single distinct
\* brightness change, the run ends in InsufficientVariationError (and so
\* reports no coefficient).
C13_ZeroVarianceRejected ==
    (Len(regSample) > 0 /\ Cardinality(SampleChanges) = 1) =>
        regStatus = "InsufficientVariationError"

\* The position at which region id f first appears in the brightness table
FirstRow(f) == Min({i \in 1..Len(Lights) : Lights[i].id_2 = f})

\* C14: among the regions at minimal distance from a firm, the matcher assigns
\* the one that comes first in the region order, so the mapping is a function
\* of the firms and the ordered region list.
C14_TieGoesToFirstRegion ==
    hqCsv.exists =>
        \A h \in Range(hqCsv.rows) :
            \E a \in ValidRegions :
                /\ a.id_2 = h.county_fips
                /\ \A o \in ValidRegions :
                        DistanceTo(h, o) <= DistanceTo(h, a) =>
                            FirstRow(a.id_2) <= FirstRow(o.id_2)

\* C14 witness: BBB at (30,30) is as far from R1 as from R2 and is mapped to
\* R1, which comes first.
C14_Witness ==
    /\ hqCsv.exists
    /\ \E h \in Range(hqCsv.rows) :
            /\ h.ticker = "BBB" /\ h.lat = Num(30) /\ h.county_fips = "R1"
            /\ \E a, o \in ValidRegions :
                    /\ a.id_2 = "R1" /\ o.id_2 = "R2"
                    /\ DistanceTo(h, a) = DistanceTo(h, o)
                    /\ FirstRow("R1") < FirstRow("R2")

\* C15: a firm with a missing latitude or longitude has no entry in the
\* mapping and is reported as unmatched, and no region without a centroid is
\* assigned to a firm.
C15_MissingCoordinatesExcludedAndReported ==
    hqCsv.exists =>
        /\ \A f \in Range(firmsCsv) :
                (f.lat = NaN \/ f.lon = NaN) =>
                    /\ \A h \in Range(hqCsv.rows) : h.ticker # f.ticker
                    /\ f.ticker \in UnmatchedReported(firmsCsv, hqCsv.rows)
        /\ \A h \in Range(hqCsv.rows) :
                \E a \in ValidRegions : a.id_2 = h.county_fips

\* C16: when no region has a usable centroid, a run of the matcher ends in an
\* error and no mapping file is written, not even an empty one.
C16_NoRegionsIsAnError ==
    (ValidRegions = {} /\ mapStatus # "not_run") =>
        mapStatus = "ValueError" /\ ~hqCsv.exists

\* C16 witness: the matcher ran on a brightness table whose rows all lack a
\* centroid, failed, and left no mapping file.
C16_Witness ==
    /\ Len(Lights) > 0 /\ ValidRegions = {}
    /\ Len(firmsCsv) > 0
    /\ mapStatus = "ValueError" /\ ~hqCsv.exists

\* The design and the reported result of the last regression run
Design ==
    IF regPath = "modeling" THEN ModelingDesign(regSample) ELSE PageDesign(regSample)
Reported == IF regPath = "modeling" THEN ModelingResult ELSE PageResult

SampleMonths == {regSample[i].date : i \in 1..Len(regSample)}

\* C21: a fitted regression has one month indicator per distinct month of its
\* sample but one, next to the intercept and the brightness term.
C21_MonthIndicators ==
    regStatus = "fitted" =>
        Cardinality({c \in Design : Len(c) = 2}) = Cardinality(SampleMonths) - 1

\* C22: a fitted regression reports the incremental R-squared, the full
\* model's R-squared minus that of the month-only model.
C22_IncrementalRSquaredReported ==
    regStatus = "fitted" => "incremental_r2" \in Reported

\* The ticker-months of the return table whose ticker is in the mapping, and
\* those of them for which the ticker's county has a brightness row
TickerMonths ==
    {<<x.ticker, x.date>> :
        x \in {y \in Range(retsCsv) :
                    \E h \in Range(LoadHqMapping.rows) : h.ticker = y.ticker}}
MatchedTickerMonths ==
    {tm \in TickerMonths :
        \E h \in Range(LoadHqMapping.rows) : \E l \in Range(Lights) :
            /\ h.ticker = tm[1] /\ l.date = tm[2]
            /\ StateKey(l.name_1) = h.state_key
            /\ CountyKey(l.name_2) = h.county_key}

\* C23: a run of the panel builder emits the number of matched and of
\* unmatched ticker-months, which add up to the ticker-months it tried to match.
C23_MatchedUnmatchedCounts ==
    panelStatus = "ok" =>
        LET d == BrightnessDiagnostic(LoadHqMapping.rows, Lights)
        IN /\ d.matched = Cardinality(MatchedTickerMonths)
           /\ d.total - d.matched = Cardinality(TickerMonths \ MatchedTickerMonths)

\* C28: two panel rows of different tickers with the same region and the same
\* month carry the same intensity and the same brightness change.
C28_SameRegionSameValues ==
    panelCsv.exists =>
        \A r1, r2 \in Range(Panel) :
            (/\ r1.ticker # r2.ticker
             /\ r1.county_fips = r2.county_fips
             /\ r1.date # NaN /\ r1.date = r2.date) =>
                /\ r1.avg_rad_month = r2.avg_rad_month
                /\ r1.brightness_change = r2.brightness_change

\* C29: the mapping build_firm_hq_to_county writes has at most one row per
\* ticker, and the panel built from it has at most one row per (ticker, month).
C29_MappingIsFunctionOfTicker ==
    hqCsv.exists =>
        /\ \A i, j \in 1..Len(hqCsv.rows) :
                hqCsv.rows[i].ticker = hqCsv.rows[j].ticker => i = j
        /\ (panelCsv.exists /\ ~profCsv.exists) =>
                \A i, j \in 1..Len(Panel) :
                    (/\ Panel[i].ticker = Panel[j].ticker
                     /\ Panel[i].date # NaN
                     /\ Panel[i].date = Panel[j].date) => i = j

\* C20: in the panel, on which the shift and the difference were computed, the
\* rows of every ticker are in ascending month order and so are the rows of
\* every county, the key the brightness difference groups by.
C20_SortedByGroupingKey ==
    panelCsv.exists =>
        \A i, j \in 1..Len(Panel) :
            i < j =>
                /\ Panel[i].ticker = Panel[j].ticker =>
                        DateRank(Panel[i].date) <= DateRank(Panel[j].date)
                /\ (/\ Panel[i].state_key = Panel[j].state_key
                    /\ Panel[i].county_key = Panel[j].county_key) =>
                        DateRank(Panel[i].date) <= DateRank(Panel[j].date)

---------------------------------------------------------------------------
(* Properties of the brightness aggregation, checked under SpecAgg *)

\* C5: the aggregated table has exactly one row per (region id, month).
C5_OneRowPerRegionMonth ==
    lightsCsv.exists =>
        \A i, j \in 1..Len(Lights) :
            (Lights[i].id_2 = Lights[j].id_2 /\ Lights[i].date = Lights[j].date)
                => i = j

\* The raw observations of region id f in month m that pass both filters
RawGroup(f, m) ==
    SelectSeq(rawLights,
              LAMBDA r : /\ r.iso = "USA" /\ r.id_2 = f
                         /\ MonthOf(r.year, r.month) = m)

\* C6: the intensity of every output row is the sum of radiance divided by the
\* sum of area over the raw observations of its (region id, month).
C6_RatioOfSums ==
    lightsCsv.exists =>
        \A l \in Range(Lights) :
            LET g == RawGroup(l.id_2, l.date)
            IN l.avg_rad_month =
                    Num(Frac(IntSum([i \in 1..Len(g) |-> g[i].nlsum]),
                             IntSum([i \in 1..Len(g) |-> g[i].area])))

\* The raw observations that pass the country and the date filter
InsideFilters(raw) ==
    SelectSeq(raw, LAMBDA r : r.iso = "USA" /\ r.year >= CutoffYear)

\* C17: every output row is of the USA and of a month inside the window, and
\* the output is what the aggregation gives on the raw rows that pass both
\* filters: no other raw row contributes.
C17_FiltersBeforeAggregation ==
    lightsCsv.exists =>
        /\ \A l \in Range(Lights) :
                l.iso = "USA" /\ l.date >= MonthOf(CutoffYear, 1)
        /\ Lights = LightsMonthlyByCoord(InsideFilters(rawLights), centroidsCsv)

\* C17 witness: a Canadian observation of the same region and month as an
\* output row, with another radiance ratio, is in the raw table.
C17_Witness ==
    /\ lightsCsv.exists /\ Len(Lights) > 0
    /\ \E r \in Range(rawLights) : \E l \in Range(Lights) :
            /\ r.iso = "CAN" /\ r.id_2 = l.id_2 /\ r.name_2 = l.name_2
            /\ MonthOf(r.year, r.month) = l.date
            /\ Num(Frac(r.nlsum, r.area)) # l.avg_rad_month

\* C18: a run of the aggregation that is left with no row after filtering
\* ends in an error: a run that ends normally has saved at least one row.
C18_EmptyResultIsAnError ==
    (aggStatus = "ok" /\ lightsCsv.exists) => Len(Lights) > 0

\* The raw table is already aggregated: in the USA, inside the window, and
\* with one row per (region id, month)
AlreadyAggregated ==
    /\ InsideFilters(rawLights) = rawLights
    /\ \A i, j \in 1..Len(rawLights) :
            (/\ rawLights[i].id_2 = rawLights[j].id_2
             /\ rawLights[i].year = rawLights[j].year
             /\ rawLights[i].month = rawLights[j].month) => i = j

\* C19: on a table with one row per (region id, month) the aggregation returns
\* the same (region id, month, intensity) rows, every intensity unchanged.
C19_IdempotentOnAggregated ==
    (lightsCsv.exists /\ AlreadyAggregated) =>
        {<<l.id_2, l.date, l.avg_rad_month>> : l \in Range(Lights)} =
        {<<r.id_2, MonthOf(r.year, r.month), Num(Frac(r.nlsum, r.area))>> :
            r \in Range(rawLights)}

\* C19 witness: two already aggregated rows went through the aggregation.
C19_Witness ==
    /\ lightsCsv.exists /\ AlreadyAggregated
    /\ Len(rawLights) = 2 /\ Len(Lights) >= 2

---------------------------------------------------------------------------
(* Properties of the loaders and of build_all, checked under SpecRun *)

\* What the stages give when they are run on the raw inputs
FreshLights == LightsMonthlyByCoord(rawLights, centroidsCsv)
FreshComputable ==
    /\ Len(rawLights) > 0
    /\ Len(Counties(FreshLights)) > 0
    /\ Len(FirmsNorm(firmsCsv)) > 0
FreshPanel ==
    IF FreshComputable
    THEN PanelRows(HqWithKeys(RenameState(HqRecords(firmsCsv, FreshLights))),
                   FreshLights, retsCsv)
    ELSE <<>>

\* C24: after a run of build_all that ended normally, the final dataset is the
\* panel computed from the raw inputs, whatever files were there before.
C24_RebuiltFromRawInputs ==
    (loadStatus.fn = "build_all" /\ loadStatus.result = "ok") =>
        /\ FreshComputable
        /\ panelCsv.rows = FreshPanel

\* C25: the matcher does not need the aggregated brightness file, no loader
\* runs a build of another stage, and a run of build_all that ended normally
\* has run the matching, the aggregation and the join.
C25_StagesInOrder ==
    /\ mapStatus # "FileNotFoundError"
    /\ loadStatus.result # "built"
    /\ (loadStatus.fn = "build_all" /\ loadStatus.result = "ok") =>
            /\ mapStatus # "not_run"
            /\ aggStatus # "not_run"
            /\ panelStatus # "not_run"

\* The file a loader reads
LoaderFile(fn) == IF fn = "load_model_data" THEN panelCsv ELSE lightsCsv

\* C27: a loader that finds its file reads it; one that does not find it
\* builds and saves it when called with the fallback, and raises
\* FileNotFoundError, writing nothing, when called without.
C27_LoaderFallback ==
    loadStatus.fn \in {"load_model_data", "load_lights_monthly_by_coord"} =>
        /\ loadStatus.existed => loadStatus.result = "read"
        /\ (~loadStatus.existed /\ loadStatus.fallback) =>
                /\ loadStatus.result = "built"
                /\ LoaderFile(loadStatus.fn).exists
        /\ (~loadStatus.existed /\ ~loadStatus.fallback) =>
                /\ loadStatus.result = "FileNotFoundError"
                /\ ~LoaderFile(loadStatus.fn).exists

\* C30: a run of build_firm_hq_to_county that ends with an error leaves the
\* mapping file as it was.
C30_ErrorWritesNothing ==
    [][(BuildFirmHqToCounty /\ mapStatus' # "ok") => hqCsv' = hqCsv]_vars

---------------------------------------------------------------------------
(* Properties of concurrent writers, checked under SpecWrite *)

BothWritersDone == \A i \in 1..NumWriters : writers.runs[i].state = "done"

\* C26: once both runs have finished writing, the file is the whole output of
\* the run whose write ended last: no mixture of the two and no truncated table.
C26_LastWriterWins ==
    BothWritersDone => panelCsv.rows = writers.runs[writers.last].out

====
